---- MODULE Spec2Model ----
(***************************************************************************)
(* A model of src/main.py: the science.org news scraper built on a         *)
(* FlareSolverr bypass client, BeautifulSoup and markdownify.              *)
(*                                                                         *)
(* Text is a sequence of one-character strings wherever the code matches   *)
(* on characters (the attribute patterns of to_absolute_url); markup that  *)
(* no pattern can match (tag names, text nodes) is kept as whole tokens.   *)
(* A raised Python exception is the record Raise, a returned value v is    *)
(* Return(v).                                                              *)
(***************************************************************************)
EXTENDS Integers, Sequences, FiniteSets, TLC

VARIABLES
    frag,       \* to_absolute_url: the fragment handed to the first call
    norm,       \* to_absolute_url: the successive results, each call fed the last
    tag,        \* accessors: the attributes of the Tag under inspection
    key,        \* accessors: the attribute name asked for
    node,       \* accessors: the select_one result handed to must_select_one
    out,        \* accessors: the outcome of the accessor that ran
    pc,         \* pipeline: position of the running call
    call,       \* pipeline: which function is running
    requests,   \* pipeline: client.request.get calls issued by the running call
    response,   \* pipeline: the page the bypass service holds, then its answer
    parsed,     \* pipeline: whether BeautifulSoup(...) has been run by the call
    result,     \* pipeline: what the call returned or raised
    markdown    \* pipeline: the outputs of news_detail_to_markdown on the result

urlVars == <<frag, norm>>
accVars == <<tag, key, node, out>>
pipeVars == <<pc, call, requests, response, parsed, result, markdown>>
vars == <<frag, norm, tag, key, node, out, pc, call, requests, response, parsed, result, markdown>>

\* ------------------------------------------------------------------ bounds

MaxPieces == 3
MaxCalls == 2
MaxVals == 2
MaxCards == 2
MaxEdits == 1
MaxRenders == 2

\* --------------------------------------------------------------- outcomes

None == [kind |-> "None"]
Raise == [ok |-> FALSE]
Return(v) == [ok |-> TRUE, val |-> v]
NotRun == [ok |-> FALSE, idle |-> TRUE]

Range(s) == {s[i] : i \in DOMAIN s}

OccursAt(text, i, pat) ==
    /\ i + Len(pat) - 1 <= Len(text)
    /\ SubSeq(text, i, i + Len(pat) - 1) = pat

Occurs(text, pat) == \E i \in 1..Len(text) : OccursAt(text, i, pat)

RECURSIVE Flatten(_)
Flatten(ss) == IF ss = <<>> THEN <<>> ELSE Head(ss) \o Flatten(Tail(ss))

\* ------------------------------------------------------- to_absolute_url

SCIENCE_BASE_URL ==
    <<"h","t","t","p","s",":","/","/","w","w","w",".",
      "s","c","i","e","n","c","e",".","o","r","g","/">>

SrcQuote == <<"s","r","c","=","\"">>
HrefQuote == <<"h","r","e","f","=","\"">>
SrcRoot == SrcQuote \o <<"/">>
HrefRoot == HrefQuote \o <<"/">>

\* str.replace(old, new): leftmost occurrences, non-overlapping, one pass.
RECURSIVE Replace(_, _, _)
Replace(text, old, new) ==
    IF Len(text) < Len(old) THEN text
    ELSE IF SubSeq(text, 1, Len(old)) = old
         THEN new \o Replace(SubSeq(text, Len(old) + 1, Len(text)), old, new)
         ELSE <<Head(text)>> \o Replace(Tail(text), old, new)

\* A variant that matches the attribute without the leading slash of the URL.
to_absolute_url_unanchored(text) ==
    Replace(Replace(text, SrcQuote, SrcQuote \o SCIENCE_BASE_URL),
            HrefQuote, SrcQuote \o SCIENCE_BASE_URL)

to_absolute_url(text) ==
    Replace(Replace(text, SrcRoot, SrcQuote \o SCIENCE_BASE_URL),
            HrefRoot, SrcQuote \o SCIENCE_BASE_URL)

\* The fragments fed to to_absolute_url: up to MaxPieces pieces, each a
\* pattern, a part of one, or text around one.
Pieces ==
    { SrcQuote, HrefQuote, <<"/">>, <<"x">>, <<"s">>, <<"h">>, <<"\"">>,
      <<" ">>, SCIENCE_BASE_URL }

RECURSIVE FragmentsOf(_)
FragmentsOf(n) ==
    IF n = 0 THEN {<<>>}
    ELSE LET shorter == FragmentsOf(n - 1)
         IN  shorter \cup {f \o p : f \in shorter, p \in Pieces}

Fragments == FragmentsOf(MaxPieces)

UrlInit ==
    /\ frag \in Fragments
    /\ norm = <<>>

Normalize ==
    /\ Len(norm) < MaxCalls
    /\ norm' = Append(norm, to_absolute_url(IF norm = <<>> THEN frag ELSE norm[Len(norm)]))
    /\ UNCHANGED frag

\* -------------------------------------------------------------- accessors

\* What Tag.get(key) can be: None, a str, or an AttributeValueList.
Str(v) == [kind |-> "str", v |-> v]
AttributeValueList(vs) == [kind |-> "AttributeValueList", vs |-> vs]
Tag(attrs) == [kind |-> "Tag", attrs |-> attrs]

Keys == {"title", "href"}
Values == {"a", "b"}

RECURSIVE SeqsUpTo(_, _)
SeqsUpTo(S, n) ==
    IF n = 0 THEN {<<>>}
    ELSE LET shorter == SeqsUpTo(S, n - 1)
         IN  shorter \cup {Append(s, x) : s \in shorter, x \in S}

AttrShapes ==
    {None} \cup {Str(v) : v \in Values}
           \cup {AttributeValueList(vs) : vs \in SeqsUpTo(Values, MaxVals)}

Tags == {Tag(attrs) : attrs \in [Keys -> AttrShapes]}

Get(t, k) == t.attrs[k]

\* A variant that takes the first of several values instead of raising.
must_get_one_or_none_first(t, k) ==
    LET value == Get(t, k)
    IN  IF value = None THEN Return(None)
        ELSE IF value.kind = "AttributeValueList"
             THEN (IF value.vs = <<>> THEN Return(None) ELSE Return(Str(Head(value.vs))))
             ELSE Return(value)

must_get_one(t, k) ==
    LET value == Get(t, k)
    IN  IF value = None THEN Raise
        ELSE IF value.kind = "AttributeValueList" THEN Raise
        ELSE Return(value)

must_get_one_or_none(t, k) ==
    LET value == Get(t, k)
    IN  IF value = None THEN Return(None)
        ELSE IF value.kind = "AttributeValueList" THEN Raise
        ELSE Return(value)

must_select_one(t) ==
    IF t = None THEN Raise ELSE Return(t)

NoCall == [op |-> "none"]

AccInit ==
    /\ tag \in Tags
    /\ key \in Keys
    /\ node \in {None, tag}
    /\ out = NoCall

CallMustGetOne ==
    /\ out = NoCall
    /\ out' = [op |-> "must_get_one", res |-> must_get_one(tag, key)]
    /\ UNCHANGED <<tag, key, node>>

CallMustGetOneOrNone ==
    /\ out = NoCall
    /\ out' = [op |-> "must_get_one_or_none", res |-> must_get_one_or_none(tag, key)]
    /\ UNCHANGED <<tag, key, node>>

CallMustSelectOne ==
    /\ out = NoCall
    /\ out' = [op |-> "must_select_one", res |-> must_select_one(node)]
    /\ UNCHANGED <<tag, key, node>>

\* ------------------------------------------------------------ the fetch

\* What the call client.request.get(...).unwrap_response_ok() can meet.
FetchFailures == {"error", "timeout", "unreachable"}
Solved(html) == [status |-> "ok", html |-> html]
Failed(why) == [status |-> why]
Loading(html, edits) == [status |-> "loading", html |-> html, edits |-> edits]

\* client.request.get(...).unwrap_response_ok(): the solved response, or an
\* exception for any other outcome of the bypass service.
unwrap_response_ok(resp) ==
    IF resp.status = "ok" THEN Return(resp.html) ELSE Raise

\* -------------------------------------------------------- get_news_list

HasScheme(h) ==
    \E i \in 2..Len(h) :
        /\ h[i] = ":"
        /\ \A j \in 1..(i - 1) : h[j] \notin {"/", "?", "#", ":"}

\* urllib.parse.urljoin(base, h) for the base SCIENCE_BASE_URL, whose path is /.
urljoin(base, h) ==
    IF h = <<>> THEN base
    ELSE IF HasScheme(h) THEN h
    ELSE IF Len(h) >= 2 /\ SubSeq(h, 1, 2) = <<"/", "/">>
         THEN <<"h", "t", "t", "p", "s", ":">> \o h
    ELSE IF Head(h) = "/" THEN SubSeq(base, 1, Len(base) - 1) \o h
    ELSE base \o h

\* datetime.datetime.strptime(date_str, "%d %b %Y").date(), on a date text
\* cut into its runs of digits, letters, blanks and punctuation.
DayOf ==
    [t \in {"05", "5", "17", "30"} |->
        CASE t = "05" -> 5 [] t = "5" -> 5 [] t = "17" -> 17 [] t = "30" -> 30]
MonthOf ==
    [t \in {"Jan", "jan", "Feb"} |->
        CASE t = "Jan" -> 1 [] t = "jan" -> 1 [] t = "Feb" -> 2]
YearOf ==
    [t \in {"2023", "2024"} |-> CASE t = "2023" -> 2023 [] t = "2024" -> 2024]
Blanks == {" ", "  "}

DaysIn(m, y) ==
    IF m = 2 THEN (IF y % 4 = 0 /\ (y % 100 # 0 \/ y % 400 = 0) THEN 29 ELSE 28)
    ELSE IF m \in {4, 6, 9, 11} THEN 30 ELSE 31

strptime(date_str) ==
    IF /\ Len(date_str) = 5
       /\ date_str[1] \in DOMAIN DayOf
       /\ date_str[2] \in Blanks
       /\ date_str[3] \in DOMAIN MonthOf
       /\ date_str[4] \in Blanks
       /\ date_str[5] \in DOMAIN YearOf
    THEN LET d == DayOf[date_str[1]]
             m == MonthOf[date_str[3]]
             y == YearOf[date_str[5]]
         IN  IF d <= DaysIn(m, y)
             THEN Return([year |-> y, month |-> m, day |-> d])
             ELSE Raise
    ELSE Raise

\* One <article> of ".titles-results article": what select_one(".card__title a")
\* and select_one("time") find in it.
Card(a, time) == [a |-> a, time |-> time]
Time(text) == [kind |-> "Tag", text |-> text]
Anchor(title, href) == Tag([k \in Keys |-> IF k = "title" THEN title ELSE href])

\* The dict appended for one article (lines 78-86), or the exception raised.
NewsListItem(article) ==
    LET a == must_select_one(article.a)
        time == must_select_one(article.time)
    IN  IF ~a.ok \/ ~time.ok THEN Raise
        ELSE LET title == must_get_one(a.val, "title")
                 href == must_get_one(a.val, "href")
                 date == strptime(time.val.text)
             IN  IF ~title.ok \/ ~href.ok \/ ~date.ok THEN Raise
                 ELSE Return([title |-> title.val.v,
                              url |-> urljoin(SCIENCE_BASE_URL, href.val.v),
                              date |-> date.val])

\* A variant of the loop that skips an article it cannot read.
RECURSIVE ExtractCardsSkipping(_, _)
ExtractCardsSkipping(articles, results) ==
    IF articles = <<>> THEN Return(results)
    ELSE LET item == NewsListItem(Head(articles))
         IN  IF ~item.ok THEN ExtractCardsSkipping(Tail(articles), results)
             ELSE ExtractCardsSkipping(Tail(articles), Append(results, item.val))

\* A variant of the loop that keeps one summary per URL.
RECURSIVE ExtractCardsDedup(_, _)
ExtractCardsDedup(articles, results) ==
    IF articles = <<>> THEN Return(results)
    ELSE LET item == NewsListItem(Head(articles))
         IN  IF ~item.ok THEN Raise
             ELSE IF \E i \in DOMAIN results : results[i].url = item.val.url
                  THEN ExtractCardsDedup(Tail(articles), results)
                  ELSE ExtractCardsDedup(Tail(articles), Append(results, item.val))

\* The for loop of lines 76-87 over the selected articles.
RECURSIVE ExtractCardsFrom(_, _)
ExtractCardsFrom(articles, results) ==
    IF articles = <<>> THEN Return(results)
    ELSE LET item == NewsListItem(Head(articles))
         IN  IF ~item.ok THEN Raise
             ELSE ExtractCardsFrom(Tail(articles), Append(results, item.val))

ExtractCards(articles, results) == ExtractCardsFrom(articles, results)

\* The listing pages the service can answer with: up to MaxCards cards.
Titles == {"T1", "T2"}
Hrefs ==
    { <<"/", "a">>, <<"/", "b">>, SCIENCE_BASE_URL \o <<"a">> }
GoodDates == { <<"05", " ", "Jan", " ", "2024">>, <<"17", " ", "Feb", " ", "2023">> }
BadDates ==
    { <<"2024", "-", "01", "-", "05">>,
      <<"05", " ", "January", " ", "2024">>,
      <<"30", " ", "Feb", " ", "2023">> }

GoodCards ==
    { Card(Anchor(Str(t), Str(h)), Time(d)) : t \in Titles, h \in Hrefs, d \in GoodDates }

BadCards ==
    LET t == Str("T1")
        h == Str(<<"/", "a">>)
        d == Time(<<"05", " ", "Jan", " ", "2024">>)
        many == AttributeValueList(<<"a", "b">>)
    IN  { Card(None, d), Card(Anchor(t, h), None),
          Card(Anchor(None, h), d), Card(Anchor(many, h), d),
          Card(Anchor(t, None), d), Card(Anchor(t, many), d) }
        \cup { Card(Anchor(t, h), Time(bad)) : bad \in BadDates }

ListingPages == SeqsUpTo(GoodCards \cup BadCards, MaxCards)

\* ------------------------------------------------------ get_news_detail

\* An article page is its elements in document order, each with the one
\* selector of the code it matches (or a tag name no selector matches) and its
\* depth; an element's subtree is the run of deeper elements that follows it.
HeroTitle == ".news-article__hero__title"
HeroSubtitle == ".news-article__hero__subtitle"
ArticleContent == "article.news-article-content"
Figure == "figure"

NoiseSelectors ==
    <<"script", "form", "style", ".audio-player", ".adplaceholder",
      "#div-gpt-ad-leader-inline">>

Required == {HeroTitle, HeroSubtitle, ArticleContent, Figure}
Void == {"img"}

El(sel, depth) == [sel |-> sel, depth |-> depth]

\* BeautifulSoup(html_content, "html.parser"): every element gets an identity,
\* its position in the page, which it keeps when others are extracted.
Parse(page) ==
    [i \in DOMAIN page |-> [sel |-> page[i].sel, depth |-> page[i].depth, id |-> i]]

SubtreeEnd(soup, i) ==
    LET stops == {k \in (i + 1)..Len(soup) : soup[k].depth <= soup[i].depth}
    IN  IF stops = {} THEN Len(soup)
        ELSE (CHOOSE k \in stops : \A m \in stops : k <= m) - 1

\* s.extract(): the element leaves the tree with its whole subtree.
Extract(soup, i) ==
    SubSeq(soup, 1, i - 1) \o SubSeq(soup, SubtreeEnd(soup, i) + 1, Len(soup))

Select(soup, selector) == {i \in DOMAIN soup : soup[i].sel = selector}

Min(S) == CHOOSE k \in S : \A m \in S : k <= m
Max(S) == CHOOSE k \in S : \A m \in S : k >= m

\* for s in soup.select(selector): s.extract()
RECURSIVE ExtractAll(_, _)
ExtractAll(soup, selector) ==
    IF Select(soup, selector) = {} THEN soup
    ELSE ExtractAll(Extract(soup, Min(Select(soup, selector))), selector)

\* A variant without the removal loop.
RemoveNothing(soup, n) == soup

\* The loop of lines 130-139 over the selectors from position n on.
RECURSIVE RemoveUseless(_, _)
RemoveUseless(soup, n) ==
    IF n > Len(NoiseSelectors) THEN soup
    ELSE RemoveUseless(ExtractAll(soup, NoiseSelectors[n]), n + 1)

Ref(i) == [kind |-> "Tag", at |-> i]

\* A variant that takes the last match.
select_one_last(soup, selector) ==
    IF Select(soup, selector) = {} THEN None
    ELSE Ref(Max(Select(soup, selector)))

\* soup.select_one(selector): the first match in document order, or None.
select_one(soup, selector) ==
    IF Select(soup, selector) = {} THEN None
    ELSE Ref(Min(Select(soup, selector)))

TextOf(id) == "text" \o ToString(id)

\* Tag.get_text(): the text of the element and of everything under it.
get_text(soup, t) ==
    LET els == SubSeq(soup, t.at, SubtreeEnd(soup, t.at))
        withText == SelectSeq(els, LAMBDA e : e.sel \notin Void)
    IN  [k \in DOMAIN withText |-> TextOf(withText[k].id)]

ImgSrc == <<"/", "a.png">>
LinkHref == <<"/", "doi/x">>

OpenTag(sel) ==
    CASE sel = HeroTitle -> <<"<h1 class=\"news-article__hero__title\">">>
      [] sel = HeroSubtitle -> <<"<h2 class=\"news-article__hero__subtitle\">">>
      [] sel = ArticleContent -> <<"<article class=\"news-article-content\">">>
      [] sel = Figure -> <<"<figure>">>
      [] sel = "img" -> <<"<img ">> \o SrcQuote \o ImgSrc \o <<"\"", "/>">>
      [] sel = "a" -> <<"<a ">> \o HrefQuote \o LinkHref \o <<"\"", ">">>
      [] OTHER -> <<"<div>">>

CloseTag(sel) ==
    CASE sel = HeroTitle -> <<"</h1>">>
      [] sel = HeroSubtitle -> <<"</h2>">>
      [] sel = ArticleContent -> <<"</article>">>
      [] sel = Figure -> <<"</figure>">>
      [] sel = "img" -> <<>>
      [] sel = "a" -> <<"</a>">>
      [] OTHER -> <<"</div>">>

Children(soup, i) ==
    SelectSeq([k \in 1..(SubtreeEnd(soup, i) - i) |-> i + k],
              LAMBDA k : soup[k].depth = soup[i].depth + 1)

\* Tag.decode(): the element serialized with its tag and its whole subtree.
RECURSIVE Serialize(_, _)
Serialize(soup, i) ==
    LET e == soup[i]
        kids == Children(soup, i)
    IN  OpenTag(e.sel)
        \o (IF e.sel \in Void THEN <<>> ELSE <<TextOf(e.id)>>)
        \o Flatten([k \in DOMAIN kids |-> Serialize(soup, kids[k])])
        \o CloseTag(e.sel)

decode(soup, t) == Serialize(soup, t.at)

\* A variant that returns a detail with an empty figure when none is found.
NewsDetailOfLenient(html_content) ==
    LET soup == RemoveUseless(Parse(html_content), 1)
        title == must_select_one(select_one(soup, HeroTitle))
        subtitle == must_select_one(select_one(soup, HeroSubtitle))
        content == must_select_one(select_one(soup, ArticleContent))
        figure == must_select_one(select_one(soup, Figure))
    IN  IF ~title.ok \/ ~subtitle.ok \/ ~content.ok THEN Raise
        ELSE Return([title |-> get_text(soup, title.val),
                     subtitle |-> get_text(soup, subtitle.val),
                     article_content |-> to_absolute_url(decode(soup, content.val)),
                     figure |-> IF figure.ok
                                THEN to_absolute_url(decode(soup, figure.val))
                                ELSE <<>>])

\* The body of get_news_detail from line 127 on, given the fetched html.
NewsDetailOf(html_content) ==
    LET soup == RemoveUseless(Parse(html_content), 1)
        title == must_select_one(select_one(soup, HeroTitle))
        subtitle == must_select_one(select_one(soup, HeroSubtitle))
        content == must_select_one(select_one(soup, ArticleContent))
        figure == must_select_one(select_one(soup, Figure))
    IN  IF ~title.ok \/ ~subtitle.ok \/ ~content.ok \/ ~figure.ok THEN Raise
        ELSE Return([title |-> get_text(soup, title.val),
                     subtitle |-> get_text(soup, subtitle.val),
                     article_content |-> to_absolute_url(decode(soup, content.val)),
                     figure |-> to_absolute_url(decode(soup, figure.val))])

\* The article page as first served; the pages the service can answer with are
\* this one changed by up to MaxEdits insertions of an element or removals of
\* a subtree.
BasePage ==
    << El("script", 1),
       El("div", 1), El(HeroTitle, 2), El(HeroSubtitle, 2),
       El(Figure, 1), El("img", 2),
       El(ArticleContent, 1), El("a", 2), El(".adplaceholder", 2) >>

Inserted == Required \cup Range(NoiseSelectors) \cup {"div"}

WellNested(page) ==
    /\ page # <<>> => page[1].depth = 1
    /\ \A k \in 1..(Len(page) - 1) :
        /\ page[k + 1].depth <= page[k].depth + 1
        /\ page[k].sel \in Void => page[k + 1].depth <= page[k].depth

InsertAt(page, pos, e) ==
    SubSeq(page, 1, pos - 1) \o <<e>> \o SubSeq(page, pos, Len(page))

EditsOf(page) ==
    { q \in { InsertAt(page, pos, El(sel, d)) :
                pos \in 1..(Len(page) + 1), sel \in Inserted, d \in 1..3 } :
        WellNested(q) }
    \cup { Extract(page, pos) : pos \in DOMAIN page }

\* ---------------------------------------------- news_detail_to_markdown

TagTokens ==
    {"<h1 class=\"news-article__hero__title\">", "<h2 class=\"news-article__hero__subtitle\">",
     "<article class=\"news-article-content\">", "<figure>", "<div>",
     "</h2>", "</article>", "</figure>", "</div>"}

IndexOf(tokens, t) == Min({k \in DOMAIN tokens : tokens[k] = t})

\* The value of the attribute written name=" in the text of a start tag, or
\* None when the tag has no such attribute.
AttrValue(attrs, quote) ==
    LET at == {k \in DOMAIN attrs : OccursAt(attrs, k, quote)}
    IN  IF at = {} THEN None
        ELSE LET from == Min(at) + Len(quote)
                 ends == {k \in from..Len(attrs) : attrs[k] = "\""}
             IN  Str(SubSeq(attrs, from, Min(ends) - 1))

\* markdownify(html): tags go, text stays, an image becomes ![](src), a link
\* with an href becomes [text](href), a first-level heading is underlined.
\* open holds the href (or None) of every <a> not yet closed.
RECURSIVE Convert(_, _)
Convert(tokens, open) ==
    IF tokens = <<>> THEN <<>>
    ELSE LET h == Head(tokens) IN
         CASE h = "<img " ->
                LET end == IndexOf(tokens, "/>")
                    src == AttrValue(SubSeq(tokens, 2, end - 1), SrcQuote)
                IN  <<"![](">> \o (IF src = None THEN <<>> ELSE src.v) \o <<")">>
                    \o Convert(SubSeq(tokens, end + 1, Len(tokens)), open)
           [] h = "<a " ->
                LET end == IndexOf(tokens, ">")
                    href == AttrValue(SubSeq(tokens, 2, end - 1), HrefQuote)
                IN  (IF href = None THEN <<>> ELSE <<"[">>)
                    \o Convert(SubSeq(tokens, end + 1, Len(tokens)), <<href>> \o open)
           [] h = "</a>" ->
                (IF open = <<>> \/ Head(open) = None THEN <<>>
                 ELSE <<"](">> \o Head(open).v \o <<")">>)
                \o Convert(Tail(tokens), IF open = <<>> THEN open ELSE Tail(open))
           [] h = "</h1>" -> <<"\n", "===", "\n">> \o Convert(Tail(tokens), open)
           [] h \in TagTokens -> Convert(Tail(tokens), open)
           [] OTHER -> <<h>> \o Convert(Tail(tokens), open)

markdownify(html) == Convert(html, <<>>)

\* buf.write(s) on an io.StringIO
Write(buf, s) == buf \o s

\* A variant that writes the article content before the figure.
news_detail_to_markdown_body_first(news) ==
    LET b1 == Write(<<>>, <<"# ">>)
        b2 == Write(b1, news.title)
        b3 == Write(b2, <<"\n">>)
        b4 == Write(b3, <<"## ">>)
        b5 == Write(b4, news.subtitle)
        b6 == Write(b5, <<"\n">>)
        b7 == Write(b6, markdownify(news.article_content))
        b8 == Write(b7, <<"\n">>)
        b9 == Write(b8, <<"---">>)
        b10 == Write(b9, <<"\n">>)
    IN  Write(b10, markdownify(news.figure))

news_detail_to_markdown(news) ==
    LET b1 == Write(<<>>, <<"# ">>)
        b2 == Write(b1, news.title)
        b3 == Write(b2, <<"\n">>)
        b4 == Write(b3, <<"## ">>)
        b5 == Write(b4, news.subtitle)
        b6 == Write(b5, <<"\n">>)
        b7 == Write(b6, markdownify(news.figure))
        b8 == Write(b7, <<"\n">>)
        b9 == Write(b8, <<"---">>)
        b10 == Write(b9, <<"\n">>)
    IN  Write(b10, markdownify(news.article_content))

\* ------------------------------------------------------------- the calls

StartsWith(text, prefix) ==
    Len(text) >= Len(prefix) /\ SubSeq(text, 1, Len(prefix)) = prefix

DetailUrls ==
    { SCIENCE_BASE_URL \o <<"a">>,
      <<"h", "t", "t", "p", "s", ":", "/", "/", "e", "x", "a", "m", "p", "l", "e", ".", "o", "r", "g", "/", "a">> }

\* get_news_list up to the request of lines 66-70.
CallGetNewsList ==
    /\ pc = "idle"
    /\ call' = "list"
    /\ requests' = requests + 1
    /\ pc' = "fetch"
    /\ UNCHANGED <<response, parsed, result, markdown>>

\* get_news_detail up to the request of lines 119-123; the assert of line 117
\* ends the call before any request.
CallGetNewsDetail ==
    /\ pc = "idle"
    /\ \E url \in DetailUrls :
        /\ call' = "detail"
        /\ IF StartsWith(url, SCIENCE_BASE_URL)
           THEN /\ requests' = requests + 1
                /\ pc' = "fetch"
                /\ result' = result
           ELSE /\ requests' = requests
                /\ pc' = "done"
                /\ result' = Raise
    /\ UNCHANGED <<response, parsed, markdown>>

\* The bypass service answers the request for the listing page.
BypassAnswerListing ==
    /\ pc = "fetch"
    /\ call = "list"
    /\ \/ \E page \in ListingPages : response' = Solved(page)
       \/ \E why \in FetchFailures : response' = Failed(why)
    /\ pc' = "answered"
    /\ UNCHANGED <<call, requests, parsed, result, markdown>>

\* The bypass service opens the article page.
BypassLoadArticle ==
    /\ pc = "fetch"
    /\ call = "detail"
    /\ response = None
    /\ response' = Loading(BasePage, 0)
    /\ UNCHANGED <<pc, call, requests, parsed, result, markdown>>

\* The publisher changes the markup of the page before the service is done.
PublisherEdit ==
    /\ pc = "fetch"
    /\ call = "detail"
    /\ response # None
    /\ response.edits < MaxEdits
    /\ \E page \in EditsOf(response.html) :
        response' = Loading(page, response.edits + 1)
    /\ UNCHANGED <<pc, call, requests, parsed, result, markdown>>

\* The bypass service answers the request for the article page.
BypassAnswerArticle ==
    /\ pc = "fetch"
    /\ call = "detail"
    /\ \/ response # None /\ response' = Solved(response.html)
       \/ response = None /\ \E why \in FetchFailures : response' = Failed(why)
    /\ pc' = "answered"
    /\ UNCHANGED <<call, requests, parsed, result, markdown>>

\* A variant that issues the request again after a failed one.
GetNewsListRetrying ==
    /\ pc = "answered"
    /\ call = "list"
    /\ LET r == unwrap_response_ok(response)
       IN  IF r.ok
           THEN /\ parsed' = TRUE
                /\ result' = ExtractCards(r.val, <<>>)
                /\ pc' = "done"
                /\ requests' = requests
           ELSE /\ parsed' = parsed
                /\ result' = result
                /\ pc' = "fetch"
                /\ requests' = requests + 1
    /\ requests < 3
    /\ UNCHANGED <<call, response, markdown>>

\* get_news_list from line 70 on: unwrap, parse, extract, return.
GetNewsListReturn ==
    /\ pc = "answered"
    /\ call = "list"
    /\ LET r == unwrap_response_ok(response)
       IN  IF r.ok
           THEN /\ parsed' = TRUE
                /\ result' = ExtractCards(r.val, <<>>)
           ELSE /\ parsed' = parsed
                /\ result' = Raise
    /\ pc' = "done"
    /\ UNCHANGED <<call, requests, response, markdown>>

\* get_news_detail from line 123 on: unwrap, parse, strip, extract, return.
GetNewsDetailReturn ==
    /\ pc = "answered"
    /\ call = "detail"
    /\ LET r == unwrap_response_ok(response)
       IN  IF r.ok
           THEN /\ parsed' = TRUE
                /\ result' = NewsDetailOf(r.val)
           ELSE /\ parsed' = parsed
                /\ result' = Raise
    /\ pc' = "done"
    /\ UNCHANGED <<call, requests, response, markdown>>

\* news_detail_to_markdown on the detail get_news_detail returned (line 170).
Render ==
    /\ pc = "done"
    /\ call = "detail"
    /\ result.ok
    /\ Len(markdown) < MaxRenders
    /\ markdown' = Append(markdown, news_detail_to_markdown(result.val))
    /\ UNCHANGED <<pc, call, requests, response, parsed, result>>

\* ------------------------------------------------- idle values of a part

UrlIdle == frag = <<>> /\ norm = <<>>

AccIdle ==
    /\ tag = Tag([k \in Keys |-> None])
    /\ key = "title"
    /\ node = None
    /\ out = NoCall

PipeIdle ==
    /\ pc = "idle"
    /\ call = "none"
    /\ requests = 0
    /\ response = None
    /\ parsed = FALSE
    /\ result = NotRun
    /\ markdown = <<>>

\* ------------------------------------- specification of to_absolute_url

SpecUrlInit == UrlInit /\ AccIdle /\ PipeIdle
SpecUrlNext == Normalize /\ UNCHANGED accVars /\ UNCHANGED pipeVars
SpecUrl == SpecUrlInit /\ [][SpecUrlNext]_vars

\* ------------------------------------------ specification of the accessors

SpecAccessorInit == AccInit /\ UrlIdle /\ PipeIdle
SpecAccessorNext ==
    \/ CallMustGetOne /\ UNCHANGED urlVars /\ UNCHANGED pipeVars
    \/ CallMustGetOneOrNone /\ UNCHANGED urlVars /\ UNCHANGED pipeVars
    \/ CallMustSelectOne /\ UNCHANGED urlVars /\ UNCHANGED pipeVars
SpecAccessor == SpecAccessorInit /\ [][SpecAccessorNext]_vars

\* ------------------------------------------- specification of the calls

Init == PipeIdle /\ UrlIdle /\ AccIdle

Next ==
    \/ CallGetNewsList /\ UNCHANGED urlVars /\ UNCHANGED accVars
    \/ CallGetNewsDetail /\ UNCHANGED urlVars /\ UNCHANGED accVars
    \/ BypassAnswerListing /\ UNCHANGED urlVars /\ UNCHANGED accVars
    \/ BypassLoadArticle /\ UNCHANGED urlVars /\ UNCHANGED accVars
    \/ PublisherEdit /\ UNCHANGED urlVars /\ UNCHANGED accVars
    \/ BypassAnswerArticle /\ UNCHANGED urlVars /\ UNCHANGED accVars
    \/ GetNewsListReturn /\ UNCHANGED urlVars /\ UNCHANGED accVars
    \/ GetNewsDetailReturn /\ UNCHANGED urlVars /\ UNCHANGED accVars
    \/ Render /\ UNCHANGED urlVars /\ UNCHANGED accVars

Spec == Init /\ [][Next]_vars

\* ----------------------------------------------------------------- claims

HasRootRef(text) == Occurs(text, SrcRoot) \/ Occurs(text, HrefRoot)

\* The rewrite C3 describes: each pattern keeps its own attribute name.
KeepNameRewrite(text) ==
    Replace(Replace(text, SrcRoot, SrcQuote \o SCIENCE_BASE_URL),
            HrefRoot, HrefQuote \o SCIENCE_BASE_URL)

\* C3: to_absolute_url replaces each src="/ by src="<base>/ and each href="/
\* by href="<base>/, keeping the attribute name, every other byte unchanged.
C3_KeepsAttributeName ==
    norm # <<>> => norm[1] = KeepNameRewrite(frag)

\* C4: to_absolute_url is idempotent (a second application changes nothing)
\* and a fragment with no root-relative src="/ or href="/ is returned unaltered.
C4_Idempotent ==
    /\ Len(norm) >= 2 => norm[2] = norm[1]
    /\ (Len(norm) >= 1 /\ ~HasRootRef(frag)) => norm[1] = frag

C4_Witness ==
    /\ Len(norm) = 2
    /\ HasRootRef(frag)
    /\ norm[1] # frag
    /\ norm[2] = norm[1]

\* C10: must_get_one returns v for a single value and fails for an absent or
\* a multiple one; must_get_one_or_none returns v for a single value, None for
\* an absent one and fails for a multiple one; must_select_one fails exactly
\* on None and otherwise returns the node it was given.
C10_Accessors ==
    LET value == Get(tag, key)
        single == value # None /\ value.kind = "str"
    IN  /\ out.op = "must_get_one" =>
            out.res = (IF single THEN Return(value) ELSE Raise)
        /\ out.op = "must_get_one_or_none" =>
            out.res = (IF single THEN Return(value)
                       ELSE IF value = None THEN Return(None) ELSE Raise)
        /\ out.op = "must_select_one" =>
            /\ out.res.ok <=> node # None
            /\ out.res.ok => out.res.val = node

C10_Witness ==
    /\ out.op = "must_get_one_or_none"
    /\ Get(tag, key).kind = "AttributeValueList"
    /\ Len(Get(tag, key).vs) >= 2
    /\ out.res = Raise

\* The elements of a page that lie in the subtree of an element matching one
\* of the noise selectors, and the matches of a selector outside them.
IsNoise(sel) == \E n \in DOMAIN NoiseSelectors : NoiseSelectors[n] = sel

UnderNoise(page, i) ==
    \E j \in 1..i : IsNoise(page[j].sel) /\ i <= SubtreeEnd(page, j)

Matches(page, sel) ==
    {i \in DOMAIN page : page[i].sel = sel /\ ~UnderNoise(page, i)}

DetailRan ==
    /\ pc = "done"
    /\ call = "detail"
    /\ response # None
    /\ response.status = "ok"

ListRan ==
    /\ pc = "done"
    /\ call = "list"
    /\ response.status = "ok"

Fields == {"title", "subtitle", "article_content", "figure"}

C2_NoPartialDetail ==
    (pc = "done" /\ call = "detail") =>
        /\ (DetailRan /\ \E sel \in Required : Matches(response.html, sel) = {})
              => result = Raise
        /\ result.ok =>
              /\ DOMAIN result.val = Fields
              /\ \A f \in Fields : result.val[f] # <<>>

C2_Witness ==
    /\ DetailRan
    /\ Matches(response.html, Figure) = {}
    /\ \A sel \in Required \ {Figure} : Matches(response.html, sel) # {}
    /\ result = Raise

WellFormed(card) ==
    /\ card.a # None
    /\ card.time # None
    /\ \A k \in Keys : card.a.attrs[k] # None /\ card.a.attrs[k].kind = "str"
    /\ card.time.text \in GoodDates

SummaryOf(card) ==
    [title |-> card.a.attrs["title"].v,
     url |-> urljoin(SCIENCE_BASE_URL, card.a.attrs["href"].v),
     date |-> strptime(card.time.text).val]

\* C5: for a listing page of K well-formed cards get_news_list returns K
\* summaries, the i-th built from the i-th card: nothing is re-sorted, dropped
\* or merged, and two cards with the same URL give two summaries.
C5_OneSummaryPerCard ==
    (ListRan /\ \A i \in DOMAIN response.html : WellFormed(response.html[i])) =>
        /\ result.ok
        /\ Len(result.val) = Len(response.html)
        /\ \A i \in DOMAIN response.html : result.val[i] = SummaryOf(response.html[i])

C5_Witness ==
    /\ ListRan
    /\ result.ok
    /\ Len(response.html) = 2
    /\ Len(result.val) = 2
    /\ result.val[1].url = result.val[2].url
    /\ result.val[1].title # result.val[2].title

\* C6: get_news_list is all-or-nothing: one card with an unparseable date, no
\* title anchor, no date marker or an anchor without a single title or href
\* makes the whole call fail, and no summary of an earlier card is returned.
C6_AllOrNothing ==
    (ListRan /\ \E i \in DOMAIN response.html : ~WellFormed(response.html[i])) =>
        result = Raise

C6_Witness ==
    /\ ListRan
    /\ Len(response.html) = 2
    /\ WellFormed(response.html[1])
    /\ ~WellFormed(response.html[2])
    /\ response.html[2].time # None
    /\ response.html[2].time.text = <<"2024", "-", "01", "-", "05">>
    /\ result = Raise

\* C7: the noise elements are removed before any field is selected or
\* serialized: no returned field holds text from the subtree of a noise
\* element, and a required element inside such a subtree counts as absent.
C7_NoiseRemovedFirst ==
    DetailRan =>
        LET page == response.html
        IN  /\ result.ok =>
                \A i \in DOMAIN page : UnderNoise(page, i) =>
                    \A f \in Fields : TextOf(i) \notin Range(result.val[f])
            /\ \A sel \in Required :
                (\A i \in DOMAIN page : page[i].sel = sel => UnderNoise(page, i))
                    => result = Raise

C7_Witness ==
    /\ DetailRan
    /\ result.ok
    /\ \E i \in DOMAIN response.html :
        /\ response.html[i].sel = HeroTitle
        /\ UnderNoise(response.html, i)
        /\ i < Min(Matches(response.html, HeroTitle))
    /\ \E i \in DOMAIN response.html :
        /\ UnderNoise(response.html, i)
        /\ i > Min(Matches(response.html, ArticleContent))
        /\ i <= SubtreeEnd(response.html, Min(Matches(response.html, ArticleContent)))

\* C8: a call of get_news_list or get_news_detail issues at most one request
\* and never retries: once the request has ended in a non-success outcome the
\* call has failed, without parsing any HTML and without a result.
C8_OneRequestNoRetry ==
    /\ requests <= 1
    /\ pc \in {"fetch", "answered"} => requests = 1
    /\ (response # None /\ response.status \in FetchFailures) =>
        /\ ~parsed
        /\ pc = "done" => result = Raise
        /\ markdown = <<>>

C8_Witness ==
    /\ pc = "done"
    /\ call = "list"
    /\ response # None
    /\ response.status = "timeout"
    /\ requests = 1
    /\ result = Raise
    /\ ~parsed

\* C9: news_detail_to_markdown returns "# " title, newline, "## " subtitle,
\* newline, the converted figure, newline, "---", newline, the converted
\* article content, in this order; rendering again gives the same output.
C9_RenderLayout ==
    \A k \in DOMAIN markdown :
        markdown[k] =
            <<"# ">> \o result.val.title \o <<"\n">>
            \o <<"## ">> \o result.val.subtitle \o <<"\n">>
            \o markdownify(result.val.figure) \o <<"\n">>
            \o <<"---">> \o <<"\n">>
            \o markdownify(result.val.article_content)

C9_Witness ==
    /\ Len(markdown) = 2
    /\ markdown[1] = markdown[2]
    /\ \E k \in DOMAIN markdown[1] :
        /\ markdown[1][k] = "---"
        /\ \E j \in 1..(k - 1) : markdown[1][j] = "![]("
        /\ \A j \in (k + 1)..Len(markdown[1]) : markdown[1][j] # "![]("

====
